---- MODULE Spec2Model ----
(***************************************************************************)
(* Contract metadata of cargo-contract (src/metadata/lib.rs): the          *)
(* canonical byte encoding, the ContractBuilder and the ContractMetadata   *)
(* document with its serde serialization.                                  *)
(*                                                                         *)
(* Conventions.  Option<T> is a sequence of length at most one: None is    *)
(* <<>> and Some(x) is <<x>>.  Rust strings are TLA+ strings.  A           *)
(* serde_json::Value is a one-field record whose field names its kind:     *)
(* [str |-> s], [arr |-> seq], [obj |-> map], [null |-> TRUE]; a map is a  *)
(* function from keys to values.                                           *)
(***************************************************************************)
EXTENDS Integers, Sequences, FiniteSets, TLC

VARIABLES
    builder,  \* the ContractBuilder: its eight Option fields
    result,   \* Option of the last value returned by ContractBuilder::build
    panic,    \* Option of the message of the panic that aborted the program
    doc,      \* Option of the assembled ContractMetadata
    json,     \* Option of the last serde_json::to_value(&metadata)
    lastOp,   \* the call that produced the current state: its name and arguments
    bytes,    \* input byte sequence of the encoding functions
    hex,      \* Option of the last serialize_as_byte_str(bytes)
    shown     \* Option of the last SourceWasm::new(bytes).to_string()

vars == <<builder, result, panic, doc, json, lastOp, bytes, hex, shown>>

None == <<>>
Some(x) == <<x>>
IsSome(o) == o # None
Unwrap(o) == o[1]

-----------------------------------------------------------------------------
(* Bounds and input sets *)

MaxLen == 3
MaxAuthors == 2
ByteRange == 256
HashLen == 32

SampleBytes == {0, 1, 2, 10, 171, 255}

RECURSIVE SeqsUpTo(_, _)
SeqsUpTo(S, n) ==
    IF n = 0 THEN {<<>>}
    ELSE LET shorter == SeqsUpTo(S, n - 1)
         IN  shorter \cup {Append(s, x) : s \in {t \in shorter : Len(t) = n - 1}, x \in S}

\* every single byte, and every sequence of sample bytes up to MaxLen
ByteSeqs == SeqsUpTo(SampleBytes, MaxLen) \cup {<<b>> : b \in 0..(ByteRange - 1)}

-----------------------------------------------------------------------------
(* core::fmt of a u8 under "{:02x}" *)

LowerHexDigits == <<"0", "1", "2", "3", "4", "5", "6", "7",
                    "8", "9", "a", "b", "c", "d", "e", "f">>

\* the digits of n in base 16, most significant first, no padding ("{:x}")
RECURSIVE LowerHex(_)
LowerHex(n) ==
    IF n < 16 THEN LowerHexDigits[n + 1]
    ELSE LowerHex(n \div 16) \o LowerHexDigits[(n % 16) + 1]

\* zero padding on the left up to the given width ("{:0w}")
RECURSIVE PadZero(_, _)
PadZero(s, width) ==
    IF Len(s) >= width THEN s ELSE PadZero("0" \o s, width)

fmt_02x_unpadded(byte) == LowerHex(byte)

\* write!(hex, "{:02x}", byte)
fmt_02x(byte) == PadZero(LowerHex(byte), 2)

\* for byte in bytes { write!(hex, "{:02x}", byte) }
RECURSIVE write_bytes(_, _)
write_bytes(buf, bs) ==
    IF bs = <<>> THEN buf
    ELSE write_bytes(buf \o fmt_02x(Head(bs)), Tail(bs))

serialize_as_byte_str_always_prefixed(bs) == write_bytes("0x", bs)

\* fn serialize_as_byte_str: the string handed to serializer.serialize_str
serialize_as_byte_str(bs) ==
    IF bs = <<>> THEN ""
    ELSE write_bytes("0x", bs)

SourceWasm_fmt_as_serialized(wasm) == serialize_as_byte_str(wasm)

\* impl Display for SourceWasm
SourceWasm_fmt(wasm) == write_bytes("0x", wasm) \o ""

-----------------------------------------------------------------------------
(* semver::Version and url::Url values *)

Version_new(major, minor, patch) ==
    [major |-> major, minor |-> minor, patch |-> patch, pre |-> ""]

DecDigits == <<"0", "1", "2", "3", "4", "5", "6", "7", "8", "9">>

RECURSIVE DecStr(_)
DecStr(n) ==
    IF n < 10 THEN DecDigits[n + 1]
    ELSE DecStr(n \div 10) \o DecDigits[(n % 10) + 1]

\* impl Display for semver::Version: major.minor.patch[-pre]
Version_fmt(v) ==
    DecStr(v.major) \o "." \o DecStr(v.minor) \o "." \o DecStr(v.patch)
        \o (IF v.pre = "" THEN "" ELSE "-" \o v.pre)

\* Url::as_str of a parsed Url; Url serializes as this string
Url_as_str(u) == u

-----------------------------------------------------------------------------
(* Inputs of the builder *)

Names == {"", "incrementer"}
Versions == {Version_new(2, 1, 0),
             [major |-> 1, minor |-> 46, patch |-> 0, pre |-> "nightly"]}
AuthorNames == {"alice", "bob"}
AuthorLists == SeqsUpTo(AuthorNames, MaxAuthors)
Descriptions == {"increment a value"}
DocumentationUrls == {"http://docs.rs/"}
RepositoryUrls == {"http://github.com/paritytech/ink/"}
HomepageUrls == {"http://example.com/"}
Licenses == {"Apache-2.0"}

RequiredFields == {"name", "version", "authors"}
OptionalFields == {"description", "documentation", "repository", "homepage", "license"}
Fields == RequiredFields \cup OptionalFields

-----------------------------------------------------------------------------
(* ContractBuilder *)

\* ContractBuilder::default(), returned by Contract::builder()
ContractBuilder_default ==
    [name |-> None, version |-> None, authors |-> None, description |-> None,
     documentation |-> None, repository |-> None, homepage |-> None,
     license |-> None]

\* panic!(msg): the call aborts before any assignment
Panic(msg) ==
    /\ panic' = Some(msg)
    /\ UNCHANGED <<builder, result>>

SetField_resets_others(field, value) ==
    /\ builder' = [f \in DOMAIN builder |-> IF f = field THEN Some(value) ELSE None]
    /\ UNCHANGED <<panic, result>>

\* the setter's assignment self.<field> = Some(value), returning &mut Self
SetField(field, value) ==
    /\ builder' = [builder EXCEPT ![field] = Some(value)]
    /\ UNCHANGED <<panic, result>>

Running == panic = None

\* the record of a call, kept in lastOp
Call(op, args) == [op |-> op, args |-> args]

name_overwrites(s) ==
    /\ Running
    /\ SetField("name", s)
    /\ lastOp' = Call("name", <<s>>)
    /\ UNCHANGED <<doc, json, bytes, hex, shown>>

name(s) ==
    /\ Running
    /\ IF IsSome(builder.name)
       THEN Panic("name has already been set")
       ELSE SetField("name", s)
    /\ lastOp' = Call("name", <<s>>)
    /\ UNCHANGED <<doc, json, bytes, hex, shown>>

version(v) ==
    /\ Running
    /\ IF IsSome(builder.version)
       THEN Panic("version has already been set")
       ELSE SetField("version", v)
    /\ lastOp' = Call("version", <<v>>)
    /\ UNCHANGED <<doc, json, bytes, hex, shown>>

authors_accepts_empty(as) ==
    /\ Running
    /\ IF IsSome(builder.authors)
       THEN Panic("authors has already been set")
       ELSE SetField("authors", as)
    /\ lastOp' = Call("authors", <<as>>)
    /\ UNCHANGED <<doc, json, bytes, hex, shown>>

authors(as) ==
    /\ Running
    /\ IF IsSome(builder.authors)
       THEN Panic("authors has already been set")
       ELSE IF Len(as) = 0
            THEN Panic("must have at least one author")
            ELSE SetField("authors", as)
    /\ lastOp' = Call("authors", <<as>>)
    /\ UNCHANGED <<doc, json, bytes, hex, shown>>

description(s) ==
    /\ Running
    /\ IF IsSome(builder.description)
       THEN Panic("description has already been set")
       ELSE SetField("description", s)
    /\ lastOp' = Call("description", <<s>>)
    /\ UNCHANGED <<doc, json, bytes, hex, shown>>

documentation(u) ==
    /\ Running
    /\ IF IsSome(builder.documentation)
       THEN Panic("documentation is already set")
       ELSE SetField("documentation", u)
    /\ lastOp' = Call("documentation", <<u>>)
    /\ UNCHANGED <<doc, json, bytes, hex, shown>>

repository(u) ==
    /\ Running
    /\ IF IsSome(builder.repository)
       THEN Panic("repository is already set")
       ELSE SetField("repository", u)
    /\ lastOp' = Call("repository", <<u>>)
    /\ UNCHANGED <<doc, json, bytes, hex, shown>>

homepage(u) ==
    /\ Running
    /\ IF IsSome(builder.homepage)
       THEN Panic("homepage is already set")
       ELSE SetField("homepage", u)
    /\ lastOp' = Call("homepage", <<u>>)
    /\ UNCHANGED <<doc, json, bytes, hex, shown>>

license(s) ==
    /\ Running
    /\ IF IsSome(builder.license)
       THEN Panic("license has already been set")
       ELSE SetField("license", s)
    /\ lastOp' = Call("license", <<s>>)
    /\ UNCHANGED <<doc, json, bytes, hex, shown>>

\* [&str]::join(sep)
RECURSIVE join(_, _)
join(strs, sep) ==
    IF strs = <<>> THEN ""
    ELSE IF Len(strs) = 1 THEN strs[1]
    ELSE strs[1] \o sep \o join(Tail(strs), sep)

required_of_stops_at_first(self) ==
    IF self.name = None THEN <<"name">>
    ELSE IF self.version = None THEN <<"version">>
    ELSE <<"authors">>

\* the else branch of build: required.push(..) for each field that is None
required_of(self) ==
    (IF self.name = None THEN <<"name">> ELSE <<>>)
    \o (IF self.version = None THEN <<"version">> ELSE <<>>)
    \o (IF self.authors = None THEN <<"authors">> ELSE <<>>)

Ok(c) == [ok |-> TRUE, contract |-> c]
Err(e) == [ok |-> FALSE, err |-> e]

Contract_of_drops_license(self) ==
    [name |-> Unwrap(self.name), version |-> Unwrap(self.version),
     authors |-> Unwrap(self.authors), description |-> self.description,
     documentation |-> self.documentation, repository |-> self.repository,
     homepage |-> self.homepage, license |-> None]

\* the Ok branch of build: the Contract cloned out of the builder
Contract_of(self) ==
    [name |-> Unwrap(self.name), version |-> Unwrap(self.version),
     authors |-> Unwrap(self.authors), description |-> self.description,
     documentation |-> self.documentation, repository |-> self.repository,
     homepage |-> self.homepage, license |-> self.license]

\* ContractBuilder::build(&self) -> Result<Contract, String>
ContractBuilder_build(self) ==
    IF IsSome(self.name) /\ IsSome(self.version) /\ IsSome(self.authors)
    THEN Ok(Contract_of(self))
    ELSE Err("Missing required non-default fields: " \o join(required_of(self), ", "))

build_takes_the_builder ==
    /\ Running
    /\ result' = Some(ContractBuilder_build(builder))
    /\ builder' = ContractBuilder_default
    /\ lastOp' = Call("build", <<>>)
    /\ UNCHANGED <<panic, doc, json, bytes, hex, shown>>

build ==
    /\ Running
    /\ result' = Some(ContractBuilder_build(builder))
    /\ lastOp' = Call("build", <<>>)
    /\ UNCHANGED <<builder, panic, doc, json, bytes, hex, shown>>

Init ==
    /\ builder = ContractBuilder_default
    /\ result = None
    /\ panic = None
    /\ doc = None
    /\ json = None
    /\ lastOp = Call("builder", <<>>)
    /\ bytes = <<>>
    /\ hex = None
    /\ shown = None

Next ==
    \/ \E s \in Names : name(s)
    \/ \E v \in Versions : version(v)
    \/ \E as \in AuthorLists : authors(as)
    \/ \E s \in Descriptions : description(s)
    \/ \E u \in DocumentationUrls : documentation(u)
    \/ \E u \in RepositoryUrls : repository(u)
    \/ \E u \in HomepageUrls : homepage(u)
    \/ \E s \in Licenses : license(s)
    \/ build

Spec == Init /\ [][Next]_vars

-----------------------------------------------------------------------------
(* Source and its parts *)

\* CodeHash(pub [u8; 32])
CodeHash(bs) == bs

\* SourceWasm::new
SourceWasm_new(wasm) == [wasm |-> wasm]

\* SourceLanguage::new
SourceLanguage_new(language, ver) == [language |-> language, version |-> ver]

\* SourceCompiler::new
SourceCompiler_new(compiler, ver) == [compiler |-> compiler, version |-> ver]

Language_fmt_variant_name(language) == language

\* impl Display for Language
Language_fmt(language) ==
    CASE language = "Ink" -> "ink!"
      [] language = "Solidity" -> "Solidity"
      [] language = "AssemblyScript" -> "AssemblyScript"

\* impl Display for Compiler
Compiler_fmt(compiler) ==
    CASE compiler = "RustC" -> "rustc"
      [] compiler = "Solang" -> "solang"

\* impl Display for SourceLanguage: "{} {}"
SourceLanguage_fmt(self) ==
    Language_fmt(self.language) \o " " \o Version_fmt(self.version)

\* impl Display for SourceCompiler: "{} {}"
SourceCompiler_fmt(self) ==
    Compiler_fmt(self.compiler) \o " " \o Version_fmt(self.version)

\* Source::new
Source_new(wasm, hash, language, compiler) ==
    [hash |-> hash, language |-> language, compiler |-> compiler, wasm |-> wasm]

\* User::new
User_new(map) == [json |-> map]

-----------------------------------------------------------------------------
(* serde_json values and maps *)

JStr(s) == [str |-> s]
JArr(a) == [arr |-> a]
JObj(m) == [obj |-> m]
JNull == [null |-> TRUE]

EmptyMap == <<>>

\* Map::insert: a key already present has its value replaced
MapInsert(m, k, v) ==
    [x \in (DOMAIN m) \cup {k} |-> IF x = k THEN v ELSE m[x]]

\* the entries of a map, as its iterator yields them
RECURSIVE MapEntries(_)
MapEntries(m) ==
    IF DOMAIN m = {} THEN <<>>
    ELSE LET k == CHOOSE x \in DOMAIN m : TRUE
         IN  <<<<k, m[k]>>>> \o MapEntries([x \in (DOMAIN m) \ {k} |-> m[x]])

\* serde_json's SerializeMap: each serialize_entry inserts into the Map
RECURSIVE CollectMap(_, _)
CollectMap(m, entries) ==
    IF entries = <<>> THEN m
    ELSE CollectMap(MapInsert(m, Head(entries)[1], Head(entries)[2]), Tail(entries))

\* the Value::Object built from the entries a struct or map serializes
ToObject(entries) == JObj(CollectMap(EmptyMap, entries))

-----------------------------------------------------------------------------
(* impl Serialize: the entries each type hands to the serializer *)

\* CodeHash derives Clone, Debug, Eq, PartialEq and implements Serialize:
\* there is no impl Display for CodeHash, hence no to_string()
CodeHash_fmt(hash) == None

\* impl Serialize for CodeHash
Serialize_CodeHash(hash) == JStr(serialize_as_byte_str(hash))

\* impl Serialize for SourceWasm
Serialize_SourceWasm(self) == JStr(serialize_as_byte_str(self.wasm))

\* impl Serialize for SourceLanguage
Serialize_SourceLanguage(self) == JStr(SourceLanguage_fmt(self))

\* impl Serialize for SourceCompiler
Serialize_SourceCompiler(self) == JStr(SourceCompiler_fmt(self))

\* a field under #[serde(skip_serializing_if = "Option::is_none")]
SkipIfNone(key, opt, value) ==
    IF opt = None THEN <<>> ELSE <<<<key, value>>>>

\* an Option field without the attribute: None is written as null
NullIfNone(key, opt, value) ==
    IF opt = None THEN <<<<key, JNull>>>> ELSE <<<<key, value>>>>

Serialize_Source_without_skip(self) ==
    ToObject(<<<<"hash", Serialize_CodeHash(self.hash)>>,
               <<"language", Serialize_SourceLanguage(self.language)>>,
               <<"compiler", Serialize_SourceCompiler(self.compiler)>>>>
             \o NullIfNone("wasm", self.wasm,
                           IF self.wasm = None THEN JNull
                           ELSE Serialize_SourceWasm(Unwrap(self.wasm))))

\* #[derive(Serialize)] struct Source
Serialize_Source(self) ==
    ToObject(<<<<"hash", Serialize_CodeHash(self.hash)>>,
               <<"language", Serialize_SourceLanguage(self.language)>>,
               <<"compiler", Serialize_SourceCompiler(self.compiler)>>>>
             \o SkipIfNone("wasm", self.wasm,
                           IF self.wasm = None THEN JNull
                           ELSE Serialize_SourceWasm(Unwrap(self.wasm))))

\* Option<String> and Option<Url> fields of Contract, once known to be Some
OptStr(opt) == IF opt = None THEN JNull ELSE JStr(Unwrap(opt))
OptUrl(opt) == IF opt = None THEN JNull ELSE JStr(Url_as_str(Unwrap(opt)))

\* Vec<String>
Serialize_Strings(strs) == JArr([i \in 1..Len(strs) |-> JStr(strs[i])])

Serialize_Contract_without_skip(self) ==
    ToObject(<<<<"name", JStr(self.name)>>,
               <<"version", JStr(Version_fmt(self.version))>>,
               <<"authors", Serialize_Strings(self.authors)>>>>
             \o NullIfNone("description", self.description, OptStr(self.description))
             \o NullIfNone("documentation", self.documentation, OptUrl(self.documentation))
             \o NullIfNone("repository", self.repository, OptUrl(self.repository))
             \o NullIfNone("homepage", self.homepage, OptUrl(self.homepage))
             \o NullIfNone("license", self.license, OptStr(self.license)))

\* #[derive(Serialize)] struct Contract
Serialize_Contract(self) ==
    ToObject(<<<<"name", JStr(self.name)>>,
               <<"version", JStr(Version_fmt(self.version))>>,
               <<"authors", Serialize_Strings(self.authors)>>>>
             \o SkipIfNone("description", self.description, OptStr(self.description))
             \o SkipIfNone("documentation", self.documentation, OptUrl(self.documentation))
             \o SkipIfNone("repository", self.repository, OptUrl(self.repository))
             \o SkipIfNone("homepage", self.homepage, OptUrl(self.homepage))
             \o SkipIfNone("license", self.license, OptStr(self.license)))

Serialize_User_unflattened(self) == ToObject(<<<<"json", JObj(self.json)>>>>)

\* #[derive(Serialize)] struct User { #[serde(flatten)] json }
Serialize_User(self) == ToObject(MapEntries(self.json))

ContractMetadata_entries_abi_nested(self) ==
    <<<<"metadataVersion", JStr(Version_fmt(self.metadata_version))>>,
      <<"source", Serialize_Source(self.source)>>,
      <<"contract", Serialize_Contract(self.contract)>>>>
    \o SkipIfNone("user", self.user,
                  IF self.user = None THEN JNull ELSE Serialize_User(Unwrap(self.user)))
    \o <<<<"abi", JObj(self.abi)>>>>

\* #[derive(Serialize)] struct ContractMetadata: the fixed fields in
\* declaration order, then the entries of the flattened abi
ContractMetadata_entries(self) ==
    <<<<"metadataVersion", JStr(Version_fmt(self.metadata_version))>>,
      <<"source", Serialize_Source(self.source)>>,
      <<"contract", Serialize_Contract(self.contract)>>>>
    \o SkipIfNone("user", self.user,
                  IF self.user = None THEN JNull ELSE Serialize_User(Unwrap(self.user)))
    \o MapEntries(self.abi)

\* serde_json::to_value(&metadata)
serde_json_to_value(self) == ToObject(ContractMetadata_entries(self))

-----------------------------------------------------------------------------
(* ContractMetadata *)

METADATA_VERSION_malformed == "0.1"

METADATA_VERSION == "0.1.0"

\* the versions semver::Version::parse is applied to or compared with
ParsedVersions == Versions \cup {Version_new(0, 1, 0), Version_new(0, 8, 0)}

\* semver::Version::parse: the version whose rendering is the string, if any
Version_parse(str) ==
    IF \E v \in ParsedVersions : Version_fmt(v) = str
    THEN Some(CHOOSE v \in ParsedVersions : Version_fmt(v) = str)
    ELSE None

\* inputs of the assembly
Wasms == {None, Some(SourceWasm_new(<<>>)), Some(SourceWasm_new(<<0, 1, 2>>))}
Hashes == {CodeHash([i \in 1..HashLen |-> 0]),
           CodeHash([i \in 1..HashLen |-> (i * 37) % ByteRange])}
Toolchains ==
    {<<SourceLanguage_new("Ink", Version_new(2, 1, 0)),
       SourceCompiler_new("RustC", [major |-> 1, minor |-> 46, patch |-> 0, pre |-> "nightly"])>>,
     <<SourceLanguage_new("Solidity", Version_new(0, 8, 0)),
       SourceCompiler_new("Solang", Version_new(0, 1, 0))>>,
     <<SourceLanguage_new("AssemblyScript", Version_new(0, 1, 0)),
       SourceCompiler_new("RustC", Version_new(2, 1, 0))>>}
Sources == {Source_new(w, h, t[1], t[2]) : w \in Wasms, h \in Hashes, t \in Toolchains}

OptionOf(S) == {None} \cup {Some(x) : x \in S}

\* builders on which build succeeds, and the Contracts they return
DocAuthorLists == {<<"alice">>, <<"bob", "alice">>}
CompleteBuilders ==
    [name : {Some(n) : n \in Names},
     version : {Some(Version_new(2, 1, 0))},
     authors : {Some(as) : as \in DocAuthorLists},
     description : OptionOf(Descriptions),
     documentation : OptionOf(DocumentationUrls),
     repository : OptionOf(RepositoryUrls),
     homepage : OptionOf(HomepageUrls),
     license : OptionOf(Licenses)]
Contracts == {ContractBuilder_build(b).contract : b \in CompleteBuilders}

Users ==
    {None,
     Some(User_new(EmptyMap)),
     Some(User_new([k \in {"some-user-provided-field"} |-> JStr("and-its-value")]))}

AbiKeys == {"spec", "storage", "types"}
Abis ==
    {EmptyMap,
     [k \in AbiKeys |-> IF k = "types" THEN JArr(<<>>) ELSE JObj(EmptyMap)]}

ContractMetadata_new(source, contract, user, abi) ==
    /\ Running
    /\ doc = None
    /\ LET parsed == Version_parse(METADATA_VERSION)
       IN  IF parsed = None
           THEN /\ panic' = Some("METADATA_VERSION is a valid semver string")
                /\ UNCHANGED doc
           ELSE /\ doc' = Some([metadata_version |-> Unwrap(parsed),
                                source |-> source, contract |-> contract,
                                user |-> user, abi |-> abi])
                /\ UNCHANGED panic
    /\ lastOp' = Call("new", <<>>)
    /\ UNCHANGED <<builder, result, json, bytes, hex, shown>>

remove_source_wasm_attribute_empties_payload ==
    /\ Running
    /\ IsSome(doc)
    /\ doc' = Some([Unwrap(doc) EXCEPT !.source.wasm = Some(SourceWasm_new(<<>>))])
    /\ lastOp' = Call("remove_source_wasm_attribute", <<>>)
    /\ UNCHANGED <<builder, result, panic, json, bytes, hex, shown>>

remove_source_wasm_attribute_drops_user ==
    /\ Running
    /\ IsSome(doc)
    /\ doc' = Some([Unwrap(doc) EXCEPT !.source.wasm = None, !.user = None])
    /\ lastOp' = Call("remove_source_wasm_attribute", <<>>)
    /\ UNCHANGED <<builder, result, panic, json, bytes, hex, shown>>

\* ContractMetadata::remove_source_wasm_attribute(&mut self)
remove_source_wasm_attribute ==
    /\ Running
    /\ IsSome(doc)
    /\ doc' = Some([Unwrap(doc) EXCEPT !.source.wasm = None])
    /\ lastOp' = Call("remove_source_wasm_attribute", <<>>)
    /\ UNCHANGED <<builder, result, panic, json, bytes, hex, shown>>

\* let json = serde_json::to_value(&metadata).unwrap()
to_value ==
    /\ Running
    /\ IsSome(doc)
    /\ json' = Some(serde_json_to_value(Unwrap(doc)))
    /\ lastOp' = Call("to_value", <<>>)
    /\ UNCHANGED <<builder, result, panic, doc, bytes, hex, shown>>

InitDoc ==
    /\ builder = ContractBuilder_default
    /\ result = None
    /\ panic = None
    /\ doc = None
    /\ json = None
    /\ lastOp = Call("inputs", <<>>)
    /\ bytes = <<>>
    /\ hex = None
    /\ shown = None

\* the document is constructed once: the inputs are drawn only while doc = None
NextDoc ==
    \/ /\ doc = None
       /\ \E source \in Sources, contract \in Contracts, user \in Users, abi \in Abis :
                ContractMetadata_new(source, contract, user, abi)
    \/ remove_source_wasm_attribute
    \/ to_value

SpecDoc == InitDoc /\ [][NextDoc]_vars

-----------------------------------------------------------------------------
(* The document assembled from any source and any ABI mapping, the ones    *)
(* whose keys collide with the fixed keys included                         *)

FixedKeys == {"metadataVersion", "source", "contract", "user"}

Languages == {"Ink", "Solidity", "AssemblyScript"}
Compilers == {"RustC", "Solang"}
ToolVersions == {Version_new(2, 1, 0),
                 [major |-> 1, minor |-> 46, patch |-> 0, pre |-> "nightly"]}

AnySources ==
    {Source_new(w, CodeHash([i \in 1..HashLen |-> (i * 37) % ByteRange]),
                SourceLanguage_new(l, lv), SourceCompiler_new(c, cv)) :
        w \in {None, Some(SourceWasm_new(<<0, 1, 2>>))},
        l \in Languages, lv \in ToolVersions, c \in Compilers, cv \in ToolVersions}

\* the Contracts with no optional field and with every optional field
AnyContracts ==
    {c \in Contracts :
        /\ c.authors = <<"bob", "alice">>
        /\ \/ \A f \in OptionalFields : c[f] = None
           \/ \A f \in OptionalFields : IsSome(c[f])}

CollidingAbis ==
    {[k \in {"source"} |-> JStr("shadow")],
     [k \in {"metadataVersion"} |-> JStr("9.9.9")],
     [k \in {"contract"} |-> JObj(EmptyMap)],
     [k \in {"user"} |-> JNull],
     [k \in {"spec", "source"} |-> JObj(EmptyMap)]}

AnyAbis == Abis \cup CollidingAbis

\* as NextDoc, the inputs drawn from the wider sets
NextAny ==
    \/ /\ doc = None
       /\ \E source \in AnySources, contract \in AnyContracts, user \in Users,
             abi \in AnyAbis :
                ContractMetadata_new(source, contract, user, abi)
    \/ remove_source_wasm_attribute
    \/ to_value

SpecAny == InitDoc /\ [][NextAny]_vars

-----------------------------------------------------------------------------
(* The encoding functions applied to a drawn input *)

\* byte sequences of SourceWasm, and the 32 bytes of a CodeHash
EncInputs == ByteSeqs \cup Hashes

InitEnc ==
    /\ bytes \in EncInputs
    /\ hex = None
    /\ shown = None
    /\ builder = ContractBuilder_default
    /\ result = None
    /\ panic = None
    /\ doc = None
    /\ json = None
    /\ lastOp = Call("input", <<>>)

SerializeBytes ==
    /\ hex' = Some(serialize_as_byte_str(bytes))
    /\ lastOp' = Call("serialize_as_byte_str", <<bytes>>)
    /\ UNCHANGED <<builder, result, panic, doc, json, bytes, shown>>

DisplayWasm ==
    /\ shown' = Some(SourceWasm_fmt(bytes))
    /\ lastOp' = Call("to_string", <<bytes>>)
    /\ UNCHANGED <<builder, result, panic, doc, json, bytes, hex>>

NextEnc == SerializeBytes \/ DisplayWasm

SpecEnc == InitEnc /\ [][NextEnc]_vars

-----------------------------------------------------------------------------
(* C1: serialize_as_byte_str maps every non-empty byte sequence to "0x"    *)
(* followed by exactly two lowercase hexadecimal characters per byte (high *)
(* nibble, then low nibble), in byte order, and the empty byte sequence to *)
(* the empty string, without the "0x" prefix.                              *)

RECURSIVE NibblePairs(_)
NibblePairs(bs) ==
    IF bs = <<>> THEN ""
    ELSE LowerHexDigits[(Head(bs) \div 16) + 1] \o LowerHexDigits[(Head(bs) % 16) + 1]
         \o NibblePairs(Tail(bs))

C1_CanonicalEncoding ==
    IsSome(hex) =>
        /\ bytes = <<>> => Unwrap(hex) = ""
        /\ bytes # <<>> =>
            /\ Len(Unwrap(hex)) = 2 + 2 * Len(bytes)
            /\ Unwrap(hex) = "0x" \o NibblePairs(bytes)

C1_Witness ==
    /\ IsSome(hex)
    /\ bytes = <<0, 171, 10>>
    /\ Unwrap(hex) = "0x00ab0a"

-----------------------------------------------------------------------------
(* Claims about the builder, checked under Spec *)

Built == lastOp.op = "build"
ResultOk == IsSome(result) /\ Unwrap(result).ok
ResultErr == IsSome(result) /\ ~Unwrap(result).ok

\* the message the documentation and the tests give for each set of unset
\* required fields
MissingMessage(noName, noVersion, noAuthors) ==
    CASE noName /\ noVersion /\ noAuthors ->
            "Missing required non-default fields: name, version, authors"
      [] noName /\ noVersion /\ ~noAuthors ->
            "Missing required non-default fields: name, version"
      [] noName /\ ~noVersion /\ noAuthors ->
            "Missing required non-default fields: name, authors"
      [] ~noName /\ noVersion /\ noAuthors ->
            "Missing required non-default fields: version, authors"
      [] noName /\ ~noVersion /\ ~noAuthors ->
            "Missing required non-default fields: name"
      [] ~noName /\ noVersion /\ ~noAuthors ->
            "Missing required non-default fields: version"
      [] ~noName /\ ~noVersion /\ noAuthors ->
            "Missing required non-default fields: authors"
      [] OTHER -> "Missing required non-default fields: "

SomeRequiredUnset ==
    builder.name = None \/ builder.version = None \/ builder.authors = None

(* C2: when at least one of name, version, authors is unset, build returns *)
(* a recoverable error (no Contract, no abort) whose message is "Missing   *)
(* required non-default fields: " followed by exactly the unset required   *)
(* fields, each once, in the order name, version, authors, joined by ", "; *)
(* optional fields never appear in it.                                     *)
C2_MissingFieldsMessage ==
    (Built /\ SomeRequiredUnset) =>
        /\ panic = None
        /\ ResultErr
        /\ Unwrap(result) =
             Err(MissingMessage(builder.name = None, builder.version = None,
                                builder.authors = None))

C2_Witness ==
    /\ Built
    /\ builder.name = None
    /\ IsSome(builder.version)
    /\ builder.authors = None
    /\ builder.description = None
    /\ IsSome(builder.license)
    /\ result = Some(Err("Missing required non-default fields: name, authors"))

(* C3: build succeeds if and only if name, version and authors are all    *)
(* set, whatever optional fields are set; the Contract returned holds the  *)
(* builder's value in each of the eight fields, and an optional field that *)
(* was never set is absent in it.                                          *)
C3_BuildSucceedsIffRequiredSet ==
    Built =>
        /\ IsSome(result)
        /\ Unwrap(result).ok <=> ~SomeRequiredUnset
        /\ Unwrap(result).ok =>
            LET c == Unwrap(result).contract
            IN  /\ DOMAIN c = Fields
                /\ \A f \in RequiredFields : builder[f] = Some(c[f])
                /\ \A f \in OptionalFields : c[f] = builder[f]

C3_Witness ==
    /\ Built
    /\ ResultOk
    /\ Unwrap(result).contract.name = "incrementer"
    /\ Unwrap(result).contract.authors = <<"bob", "alice">>
    /\ Unwrap(result).contract.license = Some("Apache-2.0")
    /\ Unwrap(result).contract.description = None
    /\ Unwrap(result).contract.homepage = None

(* C4: every builder field is write-once: a setter called on a field that  *)
(* is already set aborts, whatever the new value, equal to the stored one  *)
(* or not, and a set field keeps the value of its first successful set     *)
(* through every later step.                                               *)
C4_WriteOnce ==
    [][\A f \in Fields :
          IsSome(builder[f]) =>
              /\ builder'[f] = builder[f]
              /\ lastOp'.op = f => (IsSome(panic') /\ builder' = builder)]_vars

C4_Witness ==
    /\ lastOp = Call("name", <<"incrementer">>)
    /\ builder.name = Some("incrementer")
    /\ panic = Some("name has already been set")

(* C5: the authors setter called with an empty collection aborts and       *)
(* leaves the builder as it was, so authors is unset or a non-empty list   *)
(* in every reachable state; a successful authors call stores the list in  *)
(* the order supplied, and every Contract returned by build carries that   *)
(* non-empty list.                                                         *)
C5_AuthorsInv ==
    /\ builder.authors = None \/ Len(Unwrap(builder.authors)) > 0
    /\ (lastOp.op = "authors" /\ lastOp.args = <<<<>>>>) => IsSome(panic)
    /\ (lastOp.op = "authors" /\ panic = None) =>
            builder.authors = Some(lastOp.args[1])
    /\ ResultOk =>
            /\ Len(Unwrap(result).contract.authors) > 0
            /\ builder.authors = Some(Unwrap(result).contract.authors)

\* C5: the invariant above in every state, and an authors call with an empty
\* collection never changes the builder
C5_AuthorsNonEmpty ==
    /\ []C5_AuthorsInv
    /\ [][(lastOp'.op = "authors" /\ lastOp'.args = <<<<>>>>) =>
              builder' = builder]_vars

C5_Witness ==
    /\ lastOp = Call("authors", <<<<>>>>)
    /\ builder.authors = None
    /\ panic = Some("must have at least one author")

(* C6: every Contract returned by build has a non-empty name.              *)
C6_BuiltNameNonEmpty ==
    ResultOk => Unwrap(result).contract.name # ""

-----------------------------------------------------------------------------
(* Claims about the document, checked under SpecDoc *)

Removed == lastOp.op = "remove_source_wasm_attribute"
Serialized == lastOp.op = "to_value"
HasWasm(d) == IsSome(d) /\ IsSome(Unwrap(d).source.wasm)
LacksWasm(d) == IsSome(d) /\ Unwrap(d).source.wasm = None

(* C7: remove_source_wasm_attribute never fails and is idempotent: it can  *)
(* be called on every Document and never aborts; after it the Source has   *)
(* no wasm; on a Document already lacking wasm it changes nothing; and     *)
(* once absent the wasm stays absent through every later step.             *)
C7_RemoveInv ==
    /\ IsSome(doc) => ENABLED remove_source_wasm_attribute
    /\ Removed => (panic = None /\ LacksWasm(doc))

\* C7: the invariant above in every state; the call is a no-op on a Document
\* lacking wasm; once absent the wasm is absent after every step
C7_RemoveIdempotent ==
    /\ []C7_RemoveInv
    /\ [][(Removed' /\ LacksWasm(doc)) => doc' = doc]_vars
    /\ [][LacksWasm(doc) => LacksWasm(doc')]_vars

\* a call on a Document already lacking wasm: its last serialization had no
\* wasm key, and the attribute was removed after it
C7_Witness ==
    /\ Removed
    /\ LacksWasm(doc)
    /\ IsSome(json)
    /\ "wasm" \notin DOMAIN Unwrap(json).obj["source"].obj
    /\ Unwrap(doc).source.hash[1] # 0
    /\ IsSome(Unwrap(doc).user)

(* C8: remove_source_wasm_attribute is the only mutation of an assembled   *)
(* Document, and it changes nothing but the Source's wasm: the schema      *)
(* version, source.hash, source.language, source.compiler, the Contract,   *)
(* the User value and the ABI mapping are the same before and after.       *)
SameButWasm(d, e) ==
    /\ e.metadata_version = d.metadata_version
    /\ e.source.hash = d.source.hash
    /\ e.source.language = d.source.language
    /\ e.source.compiler = d.source.compiler
    /\ e.contract = d.contract
    /\ e.user = d.user
    /\ e.abi = d.abi

\* C8: every step keeps all of the Document but the wasm, and only
\* remove_source_wasm_attribute changes the Document
C8_RemoveFrame ==
    [][IsSome(doc) =>
          /\ IsSome(doc')
          /\ SameButWasm(Unwrap(doc), Unwrap(doc'))
          /\ doc' # doc => (Removed' /\ HasWasm(doc) /\ LacksWasm(doc'))]_vars

C8_Witness ==
    /\ Removed
    /\ LacksWasm(doc)
    /\ IsSome(json)
    /\ "wasm" \in DOMAIN Unwrap(json).obj["source"].obj
    /\ IsSome(Unwrap(doc).user)
    /\ Unwrap(doc).abi # EmptyMap

(* C9: in the serialized Document the key source.wasm is present exactly   *)
(* when the Source holds a wasm payload; its value is then the canonical   *)
(* byte encoding of the payload as a string, the empty string for a        *)
(* zero-length payload; with no wasm the key is omitted, never null.       *)
CanonicalEncoding(bs) == IF bs = <<>> THEN "" ELSE "0x" \o NibblePairs(bs)

\* C9: source.wasm is present iff the payload is, with its canonical encoding
C9_WasmKeyIffPayload ==
    (Serialized /\ IsSome(json)) =>
        LET src == Unwrap(json).obj["source"].obj
        IN  /\ "wasm" \in DOMAIN src <=> HasWasm(doc)
            /\ HasWasm(doc) =>
                  src["wasm"] = JStr(CanonicalEncoding(Unwrap(Unwrap(doc).source.wasm).wasm))
            /\ \A k \in DOMAIN src : src[k] # JNull

\* a present, zero-length payload: the key is there, with the empty string
C9_Witness ==
    /\ Serialized
    /\ IsSome(json)
    /\ Unwrap(doc).source.wasm = Some(SourceWasm_new(<<>>))
    /\ Unwrap(json).obj["source"].obj["wasm"] = JStr("")

(* C10: the serialized contract object always has name, version and        *)
(* authors, and has each of description, documentation, repository,        *)
(* homepage, license exactly when it is set in the Contract, that is, was  *)
(* set on the builder; no key is ever null, so a Contract with only the    *)
(* required fields serializes with exactly the keys name, version, authors.*)
C10_ContractKeys ==
    (Serialized /\ IsSome(json)) =>
        LET c == Unwrap(doc).contract
            obj == Unwrap(json).obj["contract"].obj
        IN  /\ DOMAIN obj = RequiredFields \cup {f \in OptionalFields : IsSome(c[f])}
            /\ \A k \in DOMAIN obj : obj[k] # JNull
            /\ (\A f \in OptionalFields : c[f] = None) => DOMAIN obj = RequiredFields

C10_Witness ==
    /\ Serialized
    /\ IsSome(json)
    /\ \A f \in OptionalFields : Unwrap(doc).contract[f] = None
    /\ DOMAIN Unwrap(json).obj["contract"].obj = {"name", "version", "authors"}

-----------------------------------------------------------------------------
(* Claims about flattening and the fixed fields, checked under SpecAny *)

Doc == Unwrap(doc)
Top == Unwrap(json).obj

\* the top-level keys the fixed fields of the Document write
WrittenFixedKeys(d) ==
    {"metadataVersion", "source", "contract"}
        \cup (IF IsSome(d.user) THEN {"user"} ELSE {})

(* C11: each key of the ABI mapping is a top-level key of the serialized   *)
(* Document, with the ABI's value unchanged, beside metadataVersion,       *)
(* source and contract; no other key holds the mapping; an empty ABI       *)
(* mapping adds no top-level key.                                          *)
C11_AbiFlattened ==
    (Serialized /\ IsSome(json)) =>
        /\ \A k \in DOMAIN Doc.abi : k \in DOMAIN Top /\ Top[k] = Doc.abi[k]
        /\ DOMAIN Top = WrittenFixedKeys(Doc) \cup DOMAIN Doc.abi
        /\ {"metadataVersion", "source", "contract"} \subseteq DOMAIN Top
        /\ Doc.abi = EmptyMap => DOMAIN Top = WrittenFixedKeys(Doc)

C11_Witness ==
    /\ Serialized
    /\ IsSome(json)
    /\ DOMAIN Doc.abi = {"spec", "storage", "types"}
    /\ Doc.user = None
    /\ DOMAIN Top = {"metadataVersion", "source", "contract", "spec", "storage", "types"}
    /\ Top["types"] = JArr(<<>>)

(* C12 as stated: when a User mapping is present its keys are merged into  *)
(* the top-level object, beside metadataVersion, source and contract, and  *)
(* are not the children of another key.                                    *)
C12_UserKeysAtTopLevel ==
    (Serialized /\ IsSome(json) /\ IsSome(Doc.user)) =>
        /\ \A k \in DOMAIN Unwrap(Doc.user).json :
                k \in DOMAIN Top /\ Top[k] = Unwrap(Doc.user).json[k]
        /\ "user" \in DOMAIN Top => "user" \in DOMAIN Doc.abi

(* C12 amended: when a User mapping is present its keys are the members of *)
(* the object written under the top-level key user, directly and with      *)
(* their values, and none of them becomes a top-level key; to_value keeps  *)
(* that object unless the ABI mapping has a key named user, whose value    *)
(* then stands in its place.  With no User and no such ABI key there is no *)
(* key user.                                                               *)
C12_UserNestedUnderUserKey ==
    (Serialized /\ IsSome(json)) =>
        /\ IsSome(Doc.user) =>
            /\ "user" \in DOMAIN Top
            /\ Top["user"] = IF "user" \in DOMAIN Doc.abi
                             THEN Doc.abi["user"]
                             ELSE JObj(Unwrap(Doc.user).json)
            /\ \A k \in DOMAIN Unwrap(Doc.user).json :
                    k \in DOMAIN Top => k \in FixedKeys \cup DOMAIN Doc.abi
        /\ (Doc.user = None /\ "user" \notin DOMAIN Doc.abi) => "user" \notin DOMAIN Top

C12_Witness ==
    /\ Serialized
    /\ IsSome(json)
    /\ IsSome(Doc.user)
    /\ DOMAIN Doc.abi = {"spec", "storage", "types"}
    /\ Top["user"] = JObj([k \in {"some-user-provided-field"} |-> JStr("and-its-value")])
    /\ "some-user-provided-field" \notin DOMAIN Top

(* C13: for every ABI mapping, one with a key named metadataVersion,       *)
(* source, contract or user included, the serialized Document's values for *)
(* the fixed keys are those of the Document's own schema version, Source,  *)
(* Contract and User: a flattened key does not shadow a fixed field.       *)
C13_FixedFieldsNotShadowed ==
    (Serialized /\ IsSome(json)) =>
        /\ Top["metadataVersion"] = JStr(Version_fmt(Doc.metadata_version))
        /\ Top["source"] = Serialize_Source(Doc.source)
        /\ Top["contract"] = Serialize_Contract(Doc.contract)
        /\ IsSome(Doc.user) => Top["user"] = Serialize_User(Unwrap(Doc.user))

(* C14: every Document, whatever it is assembled from, carries the schema  *)
(* version 0.1.0 in every reachable state; the assembly never aborts on    *)
(* the version constant, and no later step changes the version.            *)
C14_VersionInv ==
    /\ panic = None
    /\ lastOp.op = "new" => IsSome(doc)
    /\ IsSome(doc) =>
        /\ Doc.metadata_version = [major |-> 0, minor |-> 1, patch |-> 0, pre |-> ""]
        /\ Version_fmt(Doc.metadata_version) = "0.1.0"

\* C14: the invariant above in every state, and the version is the same after
\* every step from an assembled Document
C14_SchemaVersionConstant ==
    /\ []C14_VersionInv
    /\ [][IsSome(doc) =>
            (IsSome(doc') /\ Unwrap(doc').metadata_version = Doc.metadata_version)]_vars

C14_Witness ==
    /\ Removed
    /\ LacksWasm(doc)
    /\ Doc.abi = [k \in {"metadataVersion"} |-> JStr("9.9.9")]
    /\ Doc.source.language.language = "Solidity"
    /\ Doc.metadata_version.minor = 1

(* C16: SourceLanguage and SourceCompiler serialize, through their display *)
(* form, as the one string "<label> <version>", never as an object, the    *)
(* label fixed per variant: Ink -> "ink!", Solidity -> "Solidity",         *)
(* AssemblyScript -> "AssemblyScript", RustC -> "rustc", Solang ->         *)
(* "solang".                                                               *)
Label(variant) ==
    CASE variant = "Ink" -> "ink!"
      [] variant = "Solidity" -> "Solidity"
      [] variant = "AssemblyScript" -> "AssemblyScript"
      [] variant = "RustC" -> "rustc"
      [] variant = "Solang" -> "solang"

VersionText(v) ==
    CASE v = [major |-> 2, minor |-> 1, patch |-> 0, pre |-> ""] -> "2.1.0"
      [] v = [major |-> 1, minor |-> 46, patch |-> 0, pre |-> "nightly"] -> "1.46.0-nightly"

C16_LabelAndVersion ==
    IsSome(doc) =>
        LET l == Doc.source.language
            c == Doc.source.compiler
        IN  /\ SourceLanguage_fmt(l) = Label(l.language) \o " " \o VersionText(l.version)
            /\ SourceCompiler_fmt(c) = Label(c.compiler) \o " " \o VersionText(c.version)
            /\ Serialize_SourceLanguage(l) =
                    [str |-> Label(l.language) \o " " \o VersionText(l.version)]
            /\ Serialize_SourceCompiler(c) =
                    [str |-> Label(c.compiler) \o " " \o VersionText(c.version)]
            /\ (Serialized /\ IsSome(json) /\ "source" \notin DOMAIN Doc.abi) =>
                /\ Top["source"].obj["language"] =
                        [str |-> Label(l.language) \o " " \o VersionText(l.version)]
                /\ Top["source"].obj["compiler"] =
                        [str |-> Label(c.compiler) \o " " \o VersionText(c.version)]

C16_Witness ==
    /\ Serialized
    /\ IsSome(json)
    /\ DOMAIN Doc.abi = {"spec", "storage", "types"}
    /\ Top["source"].obj["language"] = JStr("ink! 2.1.0")
    /\ Top["source"].obj["compiler"] = JStr("solang 1.46.0-nightly")

-----------------------------------------------------------------------------
(* Claims about build and the setters together, checked under Spec *)

BuildStep == lastOp'.op = "build"

(* C15: build is a non-destructive read: it leaves the eight builder       *)
(* fields unchanged whether it succeeds or fails, so a build that follows  *)
(* a build returns the same result; and a build made once the required    *)
(* fields missing at a failed build have been set succeeds, with every     *)
(* field set before it retained in the Contract.                           *)
C15_BuildNonDestructive ==
    [][BuildStep =>
          /\ builder' = builder
          /\ panic' = panic
          /\ Built => result' = result
          /\ (ResultErr /\ ~SomeRequiredUnset') =>
                /\ Unwrap(result').ok
                /\ \A f \in RequiredFields :
                        builder[f] = Some(Unwrap(result').contract[f])
                /\ \A f \in OptionalFields :
                        Unwrap(result').contract[f] = builder[f]]_vars

\* a failed build that left the fields set before it in place
C15_Witness ==
    /\ Built
    /\ ResultErr
    /\ builder.name = Some("incrementer")
    /\ builder.authors = Some(<<"alice", "bob">>)
    /\ IsSome(builder.license)
    /\ builder.version = None

(* C18: a setter call succeeds exactly when its own field is unset (and,   *)
(* for authors, the collection is non-empty), whatever the other fields    *)
(* hold; it then stores its argument in its own field and leaves the other *)
(* seven fields and the last build result unchanged.  The builder reached  *)
(* by setting distinct fields once each is therefore the same in every     *)
(* order, and so is the result of build, which reads the builder only.     *)
C18_SettersIndependent ==
    [][\A f \in Fields :
          lastOp'.op = f =>
              /\ panic' = None <=>
                    (builder[f] = None /\ (f = "authors" => lastOp'.args[1] # <<>>))
              /\ panic' = None =>
                    /\ builder'[f] = Some(lastOp'.args[1])
                    /\ \A g \in Fields \ {f} : builder'[g] = builder[g]
              /\ result' = result]_vars

\* the fields set in an order other than the declaration order: name last
C18_Witness ==
    /\ lastOp = Call("name", <<"incrementer">>)
    /\ panic = None
    /\ \A f \in Fields : IsSome(builder[f])
    /\ ResultErr

-----------------------------------------------------------------------------
(* Claims about the display form, checked under SpecEnc *)

Displayed == lastOp.op = "to_string"

(* C17 as stated: both CodeHash and SourceWasm have a display form, "0x"   *)
(* followed by two lowercase hexadecimal characters per byte, for every    *)
(* byte sequence.                                                          *)
C17_BothDisplayPrefixed ==
    Displayed =>
        /\ shown = Some("0x" \o NibblePairs(bytes))
        /\ Len(bytes) = HashLen =>
                CodeHash_fmt(CodeHash(bytes)) = Some("0x" \o NibblePairs(bytes))

(* C17 amended: SourceWasm, and not CodeHash, has a display form; it is    *)
(* "0x" followed by two lowercase hexadecimal characters per byte for      *)
(* every byte sequence, the empty one included; display and canonical      *)
(* serialization of the same bytes agree on every non-empty sequence and   *)
(* differ exactly on the empty one (display "0x", serialization "").       *)
C17_WasmDisplayPrefixed ==
    /\ IsSome(shown) =>
        /\ Unwrap(shown) = "0x" \o NibblePairs(bytes)
        /\ Len(Unwrap(shown)) = 2 + 2 * Len(bytes)
    /\ (IsSome(shown) /\ IsSome(hex)) =>
        /\ Unwrap(shown) = Unwrap(hex) <=> bytes # <<>>
        /\ bytes = <<>> => (Unwrap(shown) = "0x" /\ Unwrap(hex) = "")
    /\ \A h \in Hashes : CodeHash_fmt(h) = None /\ Len(h) = HashLen

C17_Witness ==
    /\ Displayed
    /\ bytes = <<>>
    /\ shown = Some("0x")
    /\ hex = Some("")

====
